---- MODULE Spec2Model ----
(***************************************************************************)
(* The /chat relay of main.py: one FastAPI application served by a single  *)
(* uvicorn event loop.  Each POST /chat runs the coroutine chat(), which   *)
(* calls the blocking helpers create_thread, send_message, start_run,      *)
(* poll_run and get_latest_reply and maps their exceptions to HTTP status  *)
(* codes.                                                                  *)
(*                                                                         *)
(* Time is counted in half seconds, so that time.sleep(1.5) is 3 ticks,    *)
(* the per-call timeout of 30 s is 60 ticks and max_wait_seconds = 90 is   *)
(* 180 ticks.                                                              *)
(***************************************************************************)
EXTENDS Integers, Sequences, FiniteSets, TLC

VARIABLES
    loop,   \* the request whose coroutine the event loop is running, 0 when free
    req     \* per request slot: the frame of chat() and what it has done so far

vars == <<loop, req>>

----------------------------------------------------------------------------
(* Bounds of the model *)

NumReqs == 2        \* concurrent client connections
MaxMsgs == 2        \* messages in the list the remote returns

(* Program constants *)

max_wait_seconds == 90      \* poll_run's default ceiling
timeout == 30               \* timeout=30 of every requests call
sleep_ticks == 3            \* time.sleep(1.5), in half seconds

Reqs == 1..NumReqs

----------------------------------------------------------------------------
(* Inputs *)

RECURSIVE SeqsUpTo(_, _)
SeqsUpTo(S, n) ==
    IF n = 0 THEN {<<>>}
    ELSE LET shorter == SeqsUpTo(S, n - 1)
         IN  shorter \cup {Append(s, x) : s \in {t \in shorter : Len(t) = n - 1}, x \in S}

(* request.userQuery, as a sequence of characters *)
Queries ==
    { <<>>, <<" ">>, <<" ", " ">>, <<" ", "a", " ">> }

(* A content block: does it have a "text" key, does that have a "value"    *)
(* key, and the value.                                                     *)
Block(hasText, hasValue, value) ==
    [hasText |-> hasText, hasValue |-> hasValue, value |-> value]

NoTextBlock == Block(FALSE, FALSE, "")
NoValueBlock == Block(TRUE, FALSE, "")
TextBlock(v) == Block(TRUE, TRUE, v)

(* The JSON null, where a text value is expected. *)
Null == "<null>"

Msg(role, content) == [role |-> role, content |-> content]

MessagePool ==
    { Msg("user", <<TextBlock("A")>>),
      Msg("assistant", <<>>),
      Msg("assistant", <<NoTextBlock, TextBlock("D")>>),
      Msg("assistant", <<NoValueBlock>>),
      Msg("assistant", <<TextBlock("")>>),
      Msg("assistant", <<TextBlock(Null)>>),
      Msg("assistant", <<TextBlock("B"), TextBlock("D")>>),
      Msg("assistant", <<TextBlock("C")>>) }

MessageLists == SeqsUpTo(MessagePool, MaxMsgs)

(* What a requests call can come back with. *)
Faults == {"http_error", "conn_error", "timeout"}
CallOutcomes == {"ok"} \cup Faults

(* The "status" of a run document; "absent" is a document without the key. *)
Statuses == {"absent", "queued", "in_progress", "completed", "failed", "cancelled", "expired"}

(* The "error" of a run document. *)
ErrorPayloads == {"absent", "null", "empty", "rate limited", "quota exceeded"}

(* How long a status fetch may take: at once, or the whole per-call timeout. *)
Durations == {0, 2 * timeout}

----------------------------------------------------------------------------
(* Pure helpers *)

RECURSIVE lstrip(_)
lstrip(s) == IF s # <<>> /\ Head(s) = " " THEN lstrip(Tail(s)) ELSE s

RECURSIVE rstrip(_)
rstrip(s) ==
    IF s # <<>> /\ s[Len(s)] = " " THEN rstrip(SubSeq(s, 1, Len(s) - 1)) ELSE s

(* Validation of the raw string: the call of strip forgotten. *)
strip_forgotten(s) == s

strip(s) == rstrip(lstrip(s))

Sentinel == "No response from agent."

RECURSIVE ScanMessages(_)
ScanMessages(messages) ==
    IF messages = <<>> THEN Sentinel
    ELSE LET msg == Head(messages)
             content_blocks == msg.content
         IN  IF /\ msg.role = "assistant"
                /\ content_blocks # <<>>
                /\ content_blocks[1].hasText
                /\ content_blocks[1].hasValue
             THEN content_blocks[1].value
             ELSE ScanMessages(Tail(messages))

(* ChatResponse declared with answer: Optional[str] *)
ValidAnswer_optional(agent_reply) == TRUE

(* ChatResponse(answer=agent_reply) with answer: str: None is refused. *)
ValidAnswer(agent_reply) == agent_reply # Null

TerminalStatuses == {"completed", "failed", "cancelled", "expired"}

(* The list of line 108 with "completed" misspelt. *)
IsTerminal_misspelt(status) == status \in {"complete", "failed", "cancelled", "expired"}

(* A run document without a status taken for a terminal one. *)
IsTerminal_or_missing(status) == status \in TerminalStatuses \cup {"absent"}

IsTerminal(status) == status \in TerminalStatuses

(* The comparison of line 100 written >= *)
CeilingExceeded_at_ceiling(elapsed) == elapsed >= 2 * max_wait_seconds

(* The ceiling widened by one per-call timeout. *)
CeilingExceeded_plus_timeout(elapsed) == elapsed > 2 * (max_wait_seconds + timeout)

(* The ceiling taken twice as long. *)
CeilingExceeded_doubled(elapsed) == elapsed > 4 * max_wait_seconds

CeilingExceeded(elapsed) == elapsed > 2 * max_wait_seconds

(* The exception a requests call raises for an outcome: raise_for_status   *)
(* on a non-success status, or the transport's own exception.              *)
RequestFault(outcome) ==
    CASE outcome = "http_error" -> "HTTPError"
      [] outcome = "conn_error" -> "ConnectionError"
      [] outcome = "timeout"    -> "Timeout"
      [] OTHER                  -> "none"

(* except requests.exceptions.HTTPError in place of RequestException *)
IsRequestException_http_only(exc) == exc = "HTTPError"

IsRequestException(exc) == exc \in {"HTTPError", "ConnectionError", "Timeout"}

(* The timeout of a single requests call answered as a gateway timeout. *)
ExceptStatus_timeout_504(exc) ==
    IF exc \in {"TimeoutError", "Timeout"} THEN 504
    ELSE IF IsRequestException(exc) THEN 502
    ELSE 500

(* The except clauses of chat, in their order. *)
ExceptStatus(exc) ==
    IF IsRequestException(exc) THEN 502
    ELSE IF exc = "TimeoutError" THEN 504
    ELSE 500

ExceptDetail(exc) ==
    IF IsRequestException(exc) THEN "Failed to connect to AI agent"
    ELSE IF exc = "TimeoutError" THEN "Agent took too long to respond"
    ELSE "Internal server error"

(* data.get("error", {}).get("message", "Unknown error"); "null" has no .get *)
ErrorMessage(error) ==
    CASE error \in {"absent", "empty"} -> "Unknown error"
      [] error = "null"                -> "AttributeError"
      [] OTHER                         -> error

(* The run started before the message is posted. *)
NextStage_run_first(stage) ==
    CASE stage = "create_thread" -> "start_run"
      [] stage = "start_run"     -> "send_message"
      [] stage = "send_message"  -> "poll_run"
      [] stage = "poll_check"    -> "get_latest_reply"
      [] OTHER                   -> "responded"

(* The statements of the try block of chat, in order. *)
NextStage(stage) ==
    CASE stage = "create_thread" -> "send_message"
      [] stage = "send_message"  -> "start_run"
      [] stage = "start_run"     -> "poll_run"
      [] stage = "poll_check"    -> "get_latest_reply"
      [] OTHER                   -> "responded"

----------------------------------------------------------------------------
(* State *)

IdleReq ==
    [ pc         |-> "idle",
      userQuery  |-> <<>>,   \* request.userQuery
      user_query |-> <<>>,
      thread_id  |-> 0,
      run_id     |-> 0,
      token      |-> 0,      \* the token in the headers of the call being made
      elapsed    |-> 0,      \* time.time() - start_time of poll_run, until the next call is made
      checked    |-> -1,     \* elapsed as the last ceiling check saw it
      status     |-> "none", \* the status the last status fetch returned
      error      |-> "absent", \* the error of the run document that ended the run
      completedAt |-> 0,     \* the number of status fetches made when "completed" was first seen
      exc        |-> "none",
      excMsg     |-> "",
      code       |-> 0,
      body       |-> "",
      messages   |-> <<>>,
      calls      |-> <<>>,   \* the outbound calls issued, in order
      nTok       |-> 0,      \* calls of credential.get_token
      nSleep     |-> 0 ]     \* calls of time.sleep

Init ==
    /\ loop = 0
    /\ req = [r \in Reqs |-> IdleReq]

Set(r, rec) == req' = [req EXCEPT ![r] = rec]

Count(op, calls) == Cardinality({i \in DOMAIN calls : calls[i].op = op})

(* The last except clause answering with detail=str(e). *)
Raise_detail_str_e(rec, exc, msg) ==
    [rec EXCEPT !.pc = "responded", !.exc = exc, !.excMsg = msg,
                !.code = ExceptStatus(exc),
                !.body = IF ExceptStatus(exc) = 500 /\ msg # ""
                         THEN msg ELSE ExceptDetail(exc)]

(* An exception leaves the try block: the matching except clause answers. *)
Raise(rec, exc, msg) ==
    [rec EXCEPT !.pc = "responded", !.exc = exc, !.excMsg = msg,
                !.code = ExceptStatus(exc), !.body = ExceptDetail(exc)]

AuthMsg == "Authentication token expired and could not be refreshed"

(* The headers built once and kept for the later calls of the request. *)
get_headers_cached(rec) ==
    IF rec.token # 0 THEN rec
    ELSE [rec EXCEPT !.nTok = @ + 1, !.token = rec.nTok + 1]

(* get_headers: a token fetched from the credential on every call. *)
get_headers(rec) == [rec EXCEPT !.nTok = @ + 1, !.token = rec.nTok + 1]

(* get_headers without its except clause: the transport error of the       *)
(* token fetch leaves as it is.                                            *)
get_headers_failed_unwrapped(rec) ==
    Raise([rec EXCEPT !.nTok = @ + 1], "ConnectionError", AuthMsg)

(* get_headers, lines 62-65: any failure of get_token becomes RuntimeError. *)
get_headers_failed(rec) == Raise([rec EXCEPT !.nTok = @ + 1], "RuntimeError", AuthMsg)

(* The thread and run identifiers read from the frame of the first        *)
(* request, as if kept in one place for all requests.                      *)
Request_shared_ids(rec, op, outcome) ==
    [rec EXCEPT !.calls = Append(@, [op |-> op, thread |-> req[1].thread_id,
                                     run |-> req[1].run_id, tok |-> rec.token,
                                     outcome |-> outcome])]

(* requests.post / requests.get with the headers just built; the log      *)
(* keeps what the remote did with the call.                                *)
Request(rec, op, outcome) ==
    [rec EXCEPT !.calls = Append(@, [op |-> op, thread |-> rec.thread_id,
                                     run |-> rec.run_id, tok |-> rec.token,
                                     outcome |-> outcome])]

(* A transport fault, or raise_for_status on a non-success status, leaves  *)
(* the helper; otherwise the helper goes on as in ok.                      *)
raise_for_status(sent, outcome, ok) ==
    IF RequestFault(outcome) # "none"
    THEN Raise(sent, RequestFault(outcome), "")
    ELSE ok

(* The remote hands out the lowest identifier no request in flight holds. *)
FreshThread == CHOOSE i \in 1..NumReqs : \A q \in Reqs : req[q].thread_id # i
FreshRun == CHOOSE i \in 1..NumReqs : \A q \in Reqs : req[q].run_id # i

(* The coroutine of r may take a step: chat has no await, so it is never suspended. *)
Running(r) == loop = r

----------------------------------------------------------------------------
(* Actions *)

(* A client sends POST /chat; the server has the request, the handler has not started. *)
Arrive(r) ==
    /\ req[r].pc = "idle"
    /\ Set(r, [IdleReq EXCEPT !.pc = "arrived"])
    /\ UNCHANGED loop

(* chat, lines 135-139: strip and validate. *)
chat(r) ==
    /\ loop = 0
    /\ req[r].pc = "arrived"
    /\ loop' = r
    /\ \E userQuery \in Queries :
          LET rec == [req[r] EXCEPT !.userQuery = userQuery,
                                    !.user_query = strip(userQuery)]
          IN  IF rec.user_query = <<>>
              THEN Set(r, [rec EXCEPT !.pc = "responded", !.code = 400,
                               !.body = "userQuery is required and cannot be empty"])
              ELSE Set(r, [rec EXCEPT !.pc = "create_thread"])

create_thread(r) ==
    /\ Running(r)
    /\ req[r].pc = "create_thread"
    /\ UNCHANGED loop
    /\ \/ Set(r, get_headers_failed(req[r]))
       \/ \E outcome \in CallOutcomes, hasId \in BOOLEAN :
             LET sent == Request(get_headers(req[r]), "create_thread", outcome)
             IN  Set(r, raise_for_status(sent, outcome,
                        IF hasId
                        THEN [sent EXCEPT !.thread_id = FreshThread,
                                          !.pc = NextStage("create_thread")]
                        ELSE Raise(sent, "KeyError", "id")))

send_message(r) ==
    /\ Running(r)
    /\ req[r].pc = "send_message"
    /\ UNCHANGED loop
    /\ \/ Set(r, get_headers_failed(req[r]))
       \/ \E outcome \in CallOutcomes :
             LET sent == Request(get_headers(req[r]), "send_message", outcome)
             IN  Set(r, raise_for_status(sent, outcome,
                        [sent EXCEPT !.pc = NextStage("send_message")]))

start_run(r) ==
    /\ Running(r)
    /\ req[r].pc = "start_run"
    /\ UNCHANGED loop
    /\ \/ Set(r, get_headers_failed(req[r]))
       \/ \E outcome \in CallOutcomes, hasId \in BOOLEAN :
             LET sent == Request(get_headers(req[r]), "start_run", outcome)
             IN  Set(r, raise_for_status(sent, outcome,
                        IF hasId
                        THEN [sent EXCEPT !.run_id = FreshRun,
                                          !.pc = NextStage("start_run")]
                        ELSE Raise(sent, "KeyError", "id")))

(* poll_run, lines 96-97: start_time = time.time() *)
poll_run(r) ==
    /\ Running(r)
    /\ req[r].pc = "poll_run"
    /\ UNCHANGED loop
    /\ Set(r, [req[r] EXCEPT !.elapsed = 0, !.pc = "poll_check"])

(* poll_run, lines 100-101: the ceiling check at the top of the loop. *)
poll_check(r) ==
    /\ Running(r)
    /\ req[r].pc = "poll_check"
    /\ UNCHANGED loop
    /\ LET rec == [req[r] EXCEPT !.checked = req[r].elapsed]
       IN  IF CeilingExceeded(rec.elapsed)
           THEN Set(r, Raise(rec, "TimeoutError", "Agent took too long to respond"))
           ELSE Set(r, [rec EXCEPT !.pc = "poll_fetch"])

(* What poll_run does with the run document, lines 105-114. *)
OnStatus(rec, status, error) ==
    LET seen == [rec EXCEPT !.status = status, !.error = error,
                            !.completedAt = IF status = "completed" /\ @ = 0
                                            THEN Count("poll_run", rec.calls) ELSE @]
    IN  IF IsTerminal(status)
        THEN IF status # "completed"
             THEN IF ErrorMessage(error) = "AttributeError"
                  THEN Raise(seen, "AttributeError", "")
                  ELSE Raise(seen, "RuntimeError", ErrorMessage(error))
             ELSE [seen EXCEPT !.pc = NextStage("poll_check")]
        ELSE [seen EXCEPT !.pc = "poll_sleep"]

(* poll_run, lines 103-112: one status fetch, taking d ticks. *)
poll_fetch(r) ==
    /\ Running(r)
    /\ req[r].pc = "poll_fetch"
    /\ UNCHANGED loop
    /\ \/ Set(r, get_headers_failed(req[r]))
       \/ \E outcome \in CallOutcomes, d \in Durations :
             /\ outcome = "timeout" => d = 2 * timeout
             /\ \E status \in IF outcome = "ok" THEN Statuses ELSE {"absent"} :
                   \E error \in IF status \in {"failed", "cancelled", "expired"}
                                THEN ErrorPayloads ELSE {"absent"} :
                      LET sent == Request(get_headers(req[r]), "poll_run", outcome)
                          back == [sent EXCEPT !.elapsed = @ + d]
                      IN  Set(r, raise_for_status(back, outcome,
                                                  OnStatus(back, status, error)))

(* poll_run, line 114: time.sleep(1.5) *)
poll_sleep(r) ==
    /\ Running(r)
    /\ req[r].pc = "poll_sleep"
    /\ UNCHANGED loop
    /\ Set(r, [req[r] EXCEPT !.elapsed = @ + sleep_ticks, !.nSleep = @ + 1,
                             !.pc = "poll_check"])

(* get_latest_reply and the return of chat, lines 116-126 and 146-147;    *)
(* the frame of poll_run is gone.                                          *)
get_latest_reply(r) ==
    /\ Running(r)
    /\ req[r].pc = "get_latest_reply"
    /\ UNCHANGED loop
    /\ LET rec == [req[r] EXCEPT !.elapsed = 0, !.checked = -1]
       IN  \/ Set(r, get_headers_failed(rec))
           \/ \E outcome \in CallOutcomes :
                 \E messages \in IF outcome = "ok" THEN MessageLists ELSE {<<>>} :
                    LET sent == Request(get_headers(rec), "get_latest_reply", outcome)
                        got == [sent EXCEPT !.messages = messages]
                        agent_reply == ScanMessages(messages)
                    IN  Set(r, raise_for_status(sent, outcome,
                               IF ValidAnswer(agent_reply)
                               THEN [got EXCEPT !.pc = "responded", !.code = 200,
                                                !.body = agent_reply]
                               ELSE Raise(got, "ValidationError", "answer")))

(* The response is sent, the frame of chat is dropped, the loop is free. *)
Finish(r) ==
    /\ Running(r)
    /\ req[r].pc = "responded"
    /\ loop' = 0
    /\ Set(r, IdleReq)

Next ==
    \E r \in Reqs :
        \/ Arrive(r)
        \/ chat(r)
        \/ create_thread(r)
        \/ send_message(r)
        \/ start_run(r)
        \/ poll_run(r)
        \/ poll_check(r)
        \/ poll_fetch(r)
        \/ poll_sleep(r)
        \/ get_latest_reply(r)
        \/ Finish(r)

Spec == Init /\ [][Next]_vars

(* The steps of the handler of r once it has started: none of them waits   *)
(* for anything but a call that returns or fails within its timeout, or a  *)
(* sleep that ends.                                                        *)
Handler(r) ==
    \/ create_thread(r) \/ send_message(r) \/ start_run(r)
    \/ poll_run(r) \/ poll_check(r) \/ poll_fetch(r) \/ poll_sleep(r)
    \/ get_latest_reply(r) \/ Finish(r)

(* Time advances and every call returns or fails within its timeout, so a  *)
(* started handler goes on; the event loop starts the handler of every     *)
(* request it has accepted, however often it is busy with others.          *)
SpecLive ==
    /\ Spec
    /\ WF_vars(\E r \in Reqs : Handler(r))
    /\ \A r \in Reqs : SF_vars(chat(r))

----------------------------------------------------------------------------
(* Properties *)

LastOp(calls) == IF calls = <<>> THEN "none" ELSE calls[Len(calls)].op

(* The order in which one call may follow the calls made so far. *)
Follows(rec, op) ==
    LET prev == LastOp(rec.calls)
    IN  /\ rec.exc = "none"
        /\ rec.calls # <<>> => rec.calls[Len(rec.calls)].outcome = "ok"
        /\ CASE op = "create_thread"    -> prev = "none"
             [] op = "send_message"     -> prev = "create_thread" /\ rec.thread_id # 0
             [] op = "start_run"        -> prev = "send_message"
             [] op = "poll_run"         -> \/ prev = "start_run" /\ rec.run_id # 0
                                           \/ prev = "poll_run" /\ ~IsTerminal(rec.status)
             [] op = "get_latest_reply" -> prev = "poll_run" /\ rec.status = "completed"
             [] OTHER                   -> FALSE

CallOrder(calls) ==
    \A i \in DOMAIN calls :
        /\ i = 1 => calls[i].op = "create_thread"
        /\ i = 2 => calls[i].op = "send_message"
        /\ i = 3 => calls[i].op = "start_run"
        /\ i = 4 => calls[i].op = "poll_run"
        /\ i > 4 => calls[i].op \in {"poll_run", "get_latest_reply"}
        /\ calls[i].op = "get_latest_reply" => i = Len(calls)

(* C1: the outbound calls of a request are made in the order create        *)
(* thread, send message, start run, one or more status fetches, fetch      *)
(* messages; each call is made only after the one before it succeeded      *)
(* (for a status fetch: with a non-terminal status; for the message fetch: *)
(* with the status completed), and create thread, send message, start run  *)
(* and fetch messages are issued at most once per request.                 *)
C1_StrictOrder ==
    /\ [](\A r \in Reqs :
            /\ CallOrder(req[r].calls)
            /\ \A op \in {"create_thread", "send_message", "start_run", "get_latest_reply"} :
                  Count(op, req[r].calls) <= 1)
    /\ [][\A r \in Reqs :
            LET c == req[r].calls
                c2 == req'[r].calls
            IN  (c2 # c /\ c2 # <<>>) =>
                    /\ Len(c2) = Len(c) + 1
                    /\ SubSeq(c2, 1, Len(c)) = c
                    /\ Follows(req[r], c2[Len(c2)].op)]_vars

(* A request answered 200 after three status fetches and the message fetch. *)
C1_Witness ==
    \E r \in Reqs :
        /\ req[r].code = 200
        /\ Len(req[r].calls) = 7
        /\ Count("poll_run", req[r].calls) = 3

IsBlank(q) == \A i \in DOMAIN q : q[i] = " "

Started(r) == req[r].pc \notin {"idle", "arrived"}

(* C2: a request whose userQuery is empty or only whitespace is answered   *)
(* 400, and it has made no outbound call and no token fetch.               *)
C2_BlankRejected ==
    \A r \in Reqs :
        (Started(r) /\ IsBlank(req[r].userQuery)) =>
            /\ req[r].pc = "responded"
            /\ req[r].code = 400
            /\ req[r].calls = <<>>
            /\ req[r].nTok = 0

(* A whitespace-only query of two characters has been rejected. *)
C2_Witness ==
    \E r \in Reqs :
        /\ req[r].userQuery = <<" ", " ">>
        /\ req[r].code = 400

(* The steps the coroutine of q can take. *)
HandlerStep(q) ==
    \/ chat(q)
    \/ create_thread(q)
    \/ send_message(q)
    \/ start_run(q)
    \/ poll_run(q)
    \/ poll_check(q)
    \/ poll_fetch(q)
    \/ poll_sleep(q)
    \/ get_latest_reply(q)
    \/ Finish(q)

(* C3: while the poller of one request sleeps between status fetches,      *)
(* every other request in flight can take its next pipeline step.          *)
C3_NoSerialization ==
    \A r, q \in Reqs :
        (r # q /\ req[r].pc = "poll_sleep" /\ req[q].pc # "idle") =>
            ENABLED HandlerStep(q)

(* C4: when an outbound call returns a non-success status or raises a      *)
(* transport fault, it is the last call of the request, and the request is *)
(* answered 502 with the upstream-connect detail.                          *)
C4_FaultIs502 ==
    \A r \in Reqs :
        \A i \in DOMAIN req[r].calls :
            req[r].calls[i].outcome \in Faults =>
                /\ i = Len(req[r].calls)
                /\ req[r].pc = "responded"
                /\ req[r].code = 502
                /\ req[r].body = "Failed to connect to AI agent"

(* The second status fetch of a request met a transport fault. *)
C4_Witness ==
    \E r \in Reqs :
        /\ Len(req[r].calls) = 5
        /\ req[r].calls[5].op = "poll_run"
        /\ req[r].calls[5].outcome = "conn_error"
        /\ req[r].code = 502

(* C5: when the status completed is seen on the Nth status fetch, poll_run *)
(* returns with exactly N status fetches and N - 1 sleeps made, and the    *)
(* request makes no status fetch and no sleep after it.                    *)
C5_CompletedOnNth ==
    \A r \in Reqs :
        req[r].completedAt > 0 =>
            /\ Count("poll_run", req[r].calls) = req[r].completedAt
            /\ req[r].nSleep = req[r].completedAt - 1
            /\ req[r].status = "completed"
            /\ \/ req[r].pc = "get_latest_reply" /\ req[r].exc = "none"
               \/ /\ req[r].pc = "responded"
                  /\ \/ LastOp(req[r].calls) = "get_latest_reply"
                     \/ req[r].excMsg = AuthMsg

(* poll_run has just returned after seeing completed on its third fetch. *)
C5_Witness ==
    \E r \in Reqs :
        /\ req[r].pc = "get_latest_reply"
        /\ req[r].completedAt = 3
        /\ req[r].nSleep = 2

Ceiling == 2 * max_wait_seconds

(* poll_run of r has returned or raised, with every call of the request    *)
(* answered and every token fetched; its clock is still known.             *)
PollOver(r) ==
    /\ LastOp(req[r].calls) = "poll_run"
    /\ req[r].pc \in {"get_latest_reply", "responded"}
    /\ req[r].excMsg # AuthMsg
    /\ \A i \in DOMAIN req[r].calls : req[r].calls[i].outcome = "ok"

(* C6 as the claim states it: once the elapsed time is above the ceiling   *)
(* with no terminal status seen before, poll_run ends with TimeoutError;   *)
(* and no status fetch starts with the elapsed time above the ceiling.     *)
C6_Original ==
    \A r \in Reqs :
        /\ (PollOver(r) /\ req[r].elapsed > Ceiling) => req[r].exc = "TimeoutError"
        /\ req[r].pc = "poll_fetch" => req[r].elapsed <= Ceiling

(* C6 as amended: poll_run raises TimeoutError exactly when the check at   *)
(* the top of a loop iteration finds the elapsed time above the ceiling,   *)
(* and then it starts no status fetch; every status fetch starts right     *)
(* after a check that found the elapsed time within the ceiling.           *)
C6_CeilingCheck ==
    \A r \in Reqs :
        /\ req[r].checked > Ceiling <=> req[r].exc = "TimeoutError"
        /\ req[r].exc = "TimeoutError" =>
              /\ req[r].pc = "responded"
              /\ LastOp(req[r].calls) = "poll_run"
              /\ req[r].elapsed = req[r].checked
              /\ ~IsTerminal(req[r].status)
        /\ req[r].pc = "poll_fetch" =>
              /\ req[r].checked = req[r].elapsed
              /\ req[r].elapsed <= Ceiling

(* The ceiling check has fired after sixty-one status fetches that each    *)
(* returned at once.                                                       *)
C6_Witness ==
    \E r \in Reqs :
        /\ req[r].exc = "TimeoutError"
        /\ req[r].checked = Ceiling + sleep_ticks
        /\ Count("poll_run", req[r].calls) = 61

(* A status fetch that began within the ceiling has ended above it. *)
C6_LateFetch ==
    \E r \in Reqs :
        /\ req[r].pc = "get_latest_reply"
        /\ req[r].elapsed > Ceiling

(* C7: a request is answered 504 exactly when the ceiling check of the     *)
(* poller fired, and a request one of whose outbound calls timed out is    *)
(* answered 502.                                                           *)
C7_504IffCeiling ==
    \A r \in Reqs :
        /\ req[r].code = 504 <=> (req[r].pc = "responded" /\ req[r].checked > Ceiling)
        /\ \A i \in DOMAIN req[r].calls :
              req[r].calls[i].outcome = "timeout" => req[r].code = 502

(* A status fetch inside the poll loop timed out with the clock above the  *)
(* ceiling, and the request was answered 502.                              *)
C7_Witness ==
    \E r \in Reqs :
        /\ req[r].code = 502
        /\ LastOp(req[r].calls) = "poll_run"
        /\ req[r].calls[Len(req[r].calls)].outcome = "timeout"
        /\ req[r].elapsed > Ceiling

(* C8: when a status fetch returns failed, cancelled or expired, the       *)
(* poller stops polling and fails with the run-failed error, the request   *)
(* is answered 500, and the messages are never fetched.                    *)
C8_RunFailed ==
    \A r \in Reqs :
        req[r].status \in {"failed", "cancelled", "expired"} =>
            /\ req[r].pc = "responded"
            /\ LastOp(req[r].calls) = "poll_run"
            /\ Count("get_latest_reply", req[r].calls) = 0
            /\ req[r].code = 500
            /\ req[r].exc = "RuntimeError"

(* Whatever the error of the run document is, such a request is answered   *)
(* 500 after its last status fetch, without a message fetch.               *)
C8_Observable ==
    \A r \in Reqs :
        req[r].status \in {"failed", "cancelled", "expired"} =>
            /\ req[r].pc = "responded"
            /\ LastOp(req[r].calls) = "poll_run"
            /\ Count("get_latest_reply", req[r].calls) = 0
            /\ req[r].code = 500

(* An assistant message with a text the claim counts as usable. *)
HasText(msg) ==
    /\ msg.role = "assistant"
    /\ msg.content # <<>>
    /\ msg.content[1].hasText
    /\ msg.content[1].hasValue
    /\ msg.content[1].value \notin {"", Null}

(* C9: when no message of the fetched list is an assistant message with a  *)
(* non-empty text value in its first block, the request is answered 200    *)
(* with the sentinel as the answer.                                        *)
C9_SentinelFallback ==
    \A r \in Reqs :
        (/\ LastOp(req[r].calls) = "get_latest_reply"
         /\ req[r].calls[Len(req[r].calls)].outcome = "ok"
         /\ \A i \in DOMAIN req[r].messages : ~HasText(req[r].messages[i])) =>
            /\ req[r].code = 200
            /\ req[r].body = Sentinel

(* C10: the i-th outbound call of a request carries the i-th token the     *)
(* request fetched, and the token fetches are as many as the calls issued, *)
(* plus the one whose failure kept its call from being issued.             *)
C10_TokenPerCall ==
    \A r \in Reqs :
        /\ \A i \in DOMAIN req[r].calls : req[r].calls[i].tok = i
        /\ req[r].nTok = Len(req[r].calls) + (IF req[r].excMsg = AuthMsg THEN 1 ELSE 0)

(* A request has made all its calls, three status fetches among them. *)
C10_Witness ==
    \E r \in Reqs :
        /\ LastOp(req[r].calls) = "get_latest_reply"
        /\ req[r].nTok = 7


----------------------------------------------------------------------------
Outcomes == {200, 400, 500, 502, 504}

ErrorDetails ==
    { "userQuery is required and cannot be empty",
      "Failed to connect to AI agent",
      "Agent took too long to respond",
      "Internal server error" }

Ops(calls) == [i \in DOMAIN calls |-> calls[i].op]

(* C11: no partial results: a request ends with exactly one outcome, and   *)
(* a 200 response with an answer is produced only if create thread, send   *)
(* message and start run all succeeded in that order, the poller's last    *)
(* status fetch observed completed, and the message fetch succeeded; the   *)
(* answer of a 200 response is then a string, never null. Every other      *)
(* outcome carries an error detail and no answer.                          *)
C11_NoPartialResults ==
    \A r \in Reqs :
        LET q == req[r]
            n == Len(q.calls)
        IN  /\ (q.pc = "responded") <=> (q.code # 0)
            /\ q.pc = "responded" => q.code \in Outcomes
            /\ q.code = 200 =>
                  /\ q.exc = "none"
                  /\ n >= 5
                  /\ SubSeq(Ops(q.calls), 1, 3)
                        = <<"create_thread", "send_message", "start_run">>
                  /\ \A i \in 4..(n - 1) : q.calls[i].op = "poll_run"
                  /\ q.calls[n].op = "get_latest_reply"
                  /\ \A i \in 1..n : q.calls[i].outcome = "ok"
                  /\ q.thread_id # 0 /\ q.run_id # 0
                  /\ q.status = "completed"
                  /\ q.body = ScanMessages(q.messages)
                  /\ q.body # Null
            /\ (q.pc = "responded" /\ q.code # 200) =>
                  /\ q.body \in ErrorDetails
                  /\ q.code = 400 <=> q.exc = "none"

(* A 200 response whose answer was read from the messages, after two     *)
(* status fetches.                                                         *)
C11_Witness ==
    \E r \in Reqs :
        /\ req[r].code = 200
        /\ req[r].body = "B"
        /\ Count("poll_run", req[r].calls) = 2


----------------------------------------------------------------------------
FailedStatuses == TerminalStatuses \ {"completed"}

Response(rec) == <<rec.code, rec.body>>

(* C12: the response does not depend on the error message the remote       *)
(* reports for a run: from any state in which a status fetch is about to   *)
(* be made, two run documents that differ only in the error of a failed,   *)
(* cancelled or expired run lead to the same status code and body, 500     *)
(* with the generic detail, and the body is not the remote message; and a  *)
(* request whose run ended so has exactly that response.                   *)
C12_NoLeak ==
    \A r \in Reqs :
        /\ req[r].pc = "poll_fetch" =>
              \A status \in FailedStatuses, e1, e2 \in ErrorPayloads :
                 LET a == OnStatus(req[r], status, e1)
                     b == OnStatus(req[r], status, e2)
                 IN  /\ a.pc = "responded" /\ b.pc = "responded"
                     /\ Response(a) = Response(b)
                     /\ a.body \notin ErrorPayloads
        /\ req[r].status \in FailedStatuses =>
              /\ Response(req[r]) = <<500, "Internal server error">>
              /\ req[r].body # req[r].error
              /\ req[r].body # req[r].excMsg

(* A run that failed with a message of the remote, answered generically. *)
C12_Witness ==
    \E r \in Reqs :
        /\ req[r].status = "failed"
        /\ req[r].error = "rate limited"
        /\ req[r].excMsg = "rate limited"
        /\ req[r].code = 500


----------------------------------------------------------------------------
----------------------------------------------------------------------------
(* The position of the first message the claim counts as usable. *)
FirstWithText(messages) ==
    CHOOSE i \in DOMAIN messages :
        /\ HasText(messages[i])
        /\ \A j \in 1..(i - 1) : ~HasText(messages[j])

(* C14: when some fetched message is an assistant message with a non-empty *)
(* text value in its first block, the answer is the text value of the      *)
(* first block of the first such message; assistant messages before it     *)
(* whose first block has no usable text are skipped.                       *)
C14_FirstAssistantText ==
    \A r \in Reqs :
        (/\ LastOp(req[r].calls) = "get_latest_reply"
         /\ req[r].calls[Len(req[r].calls)].outcome = "ok"
         /\ \E i \in DOMAIN req[r].messages : HasText(req[r].messages[i])) =>
            /\ req[r].code = 200
            /\ req[r].body
                  = req[r].messages[FirstWithText(req[r].messages)].content[1].value


----------------------------------------------------------------------------
TokenFailed(r) == req[r].nTok = Len(req[r].calls) + 1

(* C15: when the token fetch made for the call of any stage fails, that    *)
(* call is not issued, no later stage runs and the request is answered     *)
(* 500 at once: the token fetches are then one more than the calls issued, *)
(* all of which had been answered ok, and a token fetch without its call   *)
(* happens in no other way.                                                *)
C15_TokenFailure ==
    \A r \in Reqs :
        /\ TokenFailed(r) <=> req[r].excMsg = AuthMsg
        /\ TokenFailed(r) =>
              /\ req[r].pc = "responded"
              /\ req[r].exc = "RuntimeError"
              /\ req[r].code = 500
              /\ req[r].body = "Internal server error"
              /\ \A i \in DOMAIN req[r].calls : req[r].calls[i].outcome = "ok"
              /\ Count("get_latest_reply", req[r].calls) = 0
              /\ ENABLED Finish(r)
              /\ ~ENABLED (create_thread(r) \/ send_message(r) \/ start_run(r)
                             \/ poll_run(r) \/ poll_check(r) \/ poll_fetch(r)
                             \/ poll_sleep(r) \/ get_latest_reply(r))

(* The token fetch of the third status fetch failed, after two sleeps. *)
C15_Witness ==
    \E r \in Reqs :
        /\ TokenFailed(r)
        /\ Count("poll_run", req[r].calls) = 2
        /\ req[r].nSleep = 2
        /\ req[r].code = 500


----------------------------------------------------------------------------
(* C16: each request creates at most one thread and starts at most one     *)
(* run, its own; every send message, start run, status fetch and message   *)
(* fetch it issues targets the thread this request created, every status   *)
(* fetch the run it started; and no two requests hold the same thread or   *)
(* the same run.                                                           *)
C16_OwnThreadAndRun ==
    \A r \in Reqs :
        LET q == req[r]
        IN  /\ Count("create_thread", q.calls) <= 1
            /\ Count("start_run", q.calls) <= 1
            /\ q.thread_id # 0 =>
                  q.calls[1].op = "create_thread" /\ q.calls[1].outcome = "ok"
            /\ q.run_id # 0 =>
                  q.calls[3].op = "start_run" /\ q.calls[3].outcome = "ok"
            /\ \A i \in DOMAIN q.calls :
                  /\ q.calls[i].op # "create_thread" =>
                        q.calls[i].thread = q.thread_id /\ q.thread_id # 0
                  /\ q.calls[i].op \in {"poll_run", "get_latest_reply"} =>
                        q.calls[i].run = q.run_id /\ q.run_id # 0
            /\ \A o \in Reqs \ {r} :
                  /\ q.thread_id # 0 => req[o].thread_id # q.thread_id
                  /\ q.run_id # 0 => req[o].run_id # q.run_id

(* The last request has fetched the status of its run twice while every    *)
(* other request has arrived and waits.                                    *)
C16_Witness ==
    /\ Count("poll_run", req[NumReqs].calls) = 2
    /\ req[NumReqs].run_id # 0
    /\ \A o \in Reqs \ {NumReqs} : req[o].pc = "arrived"


----------------------------------------------------------------------------
PollLoop == {"poll_check", "poll_fetch", "poll_sleep"}

(* C17: a status outside completed, failed, cancelled, expired, a missing  *)
(* status included, keeps the poller in its loop: it sleeps the fixed 1.5  *)
(* and goes round again, and leaves the loop only by an error of the next  *)
(* round (ceiling, fetch or token); after a terminal status it never       *)
(* sleeps; and poll_run returns success only when its most recent fetch    *)
(* returned completed.                                                     *)
C17_NonTerminalPolls ==
    \A r \in Reqs :
        LET q == req[r]
            polls == Count("poll_run", q.calls)
        IN  /\ q.pc = "poll_sleep" =>
                  /\ q.status \in Statuses \ TerminalStatuses
                  /\ LastOp(q.calls) = "poll_run"
                  /\ q.calls[Len(q.calls)].outcome = "ok"
                  /\ q.nSleep = polls - 1
                  /\ ENABLED poll_sleep(r)
            /\ q.status \in Statuses \ TerminalStatuses =>
                  /\ Count("get_latest_reply", q.calls) = 0
                  /\ \/ q.pc \in PollLoop
                     \/ /\ q.pc = "responded"
                        /\ \/ q.exc = "TimeoutError"
                           \/ IsRequestException(q.exc)
                           \/ q.excMsg = AuthMsg
            /\ q.status \in TerminalStatuses =>
                  /\ q.pc \notin PollLoop
                  /\ q.nSleep = polls - 1
            /\ q.pc \in PollLoop =>
                  \E k \in 0..polls :
                      q.elapsed = sleep_ticks * q.nSleep + 2 * timeout * k
            /\ (q.pc = "get_latest_reply" \/ Count("get_latest_reply", q.calls) > 0) =>
                  q.status = "completed"

(* Two run documents without a status were each followed by a sleep. *)
C17_Witness ==
    \E r \in Reqs :
        /\ req[r].pc = "poll_check"
        /\ req[r].status = "absent"
        /\ req[r].nSleep = 2
        /\ req[r].elapsed = 2 * sleep_ticks


----------------------------------------------------------------------------
(* The checks at 0, 1.5, 3, ... that find the elapsed time within the      *)
(* ceiling: floor(max_wait_seconds / 1.5) + 1.                             *)
MaxFetches == (2 * max_wait_seconds) \div sleep_ticks + 1

(* C18: the poller always terminates: a request makes at most              *)
(* floor(max_wait_seconds / 1.5) + 1 = 61 status fetches, and, time        *)
(* each begun with the elapsed time within the ceiling and at least 1.5    *)
(* after the one before; and, time advancing and every call returning or   *)
(* failing within its timeout, every request that has arrived is           *)
(* eventually answered.                                                    *)
C18_Terminates ==
    /\ [](\A r \in Reqs :
            /\ Count("poll_run", req[r].calls) <= MaxFetches
            /\ req[r].pc \in PollLoop =>
                  /\ sleep_ticks * (Count("poll_run", req[r].calls) - 1) <= req[r].elapsed
                  /\ req[r].pc = "poll_fetch" => req[r].elapsed <= Ceiling)
    /\ \A r \in Reqs : (req[r].pc = "arrived") ~> (req[r].pc = "responded")

(* The sixty-first status fetch returned completed and the request was     *)
(* answered.                                                               *)
C18_Witness ==
    \E r \in Reqs :
        /\ MaxFetches = 61
        /\ Count("poll_run", req[r].calls) = MaxFetches
        /\ req[r].status = "completed"
        /\ req[r].code = 200


----------------------------------------------------------------------------
(* C19: when a status fetch returns failed, cancelled or expired, the      *)
(* poller raises the run-failed error carrying the message of the run's    *)
(* error, or "Unknown error" when the error is absent, has no message or   *)
(* is null.                                                                *)
C19_RunFailedMessage ==
    \A r \in Reqs :
        req[r].status \in FailedStatuses =>
            /\ req[r].exc = "RuntimeError"
            /\ req[r].excMsg = IF req[r].error \in {"absent", "empty", "null"}
                               THEN "Unknown error"
                               ELSE req[r].error

====
